---------------------------- MODULE Spec2Model ----------------------------
(***************************************************************************)
(* Model of the GLPI ticket-to-PDF service:                                *)
(*   main.py            webhook handler, process_ticket pipeline,          *)
(*                      post_process_llm_output, rule-based extractors     *)
(*   glpi_connector.py  GLPIConnector session handling and ticket fetch    *)
(*   pdf_generator.py   PDFGenerator.generate_report / upload_to_s3        *)
(*                                                                         *)
(* Text is a sequence of tokens.  A token is a piece of a Python string    *)
(* that the code never looks inside: "\n", "*", " " and "." are the        *)
(* characters the code tests for, a section header or a boilerplate        *)
(* phrase fragment is one token, and so is a word of ordinary text.        *)
(***************************************************************************)
EXTENDS Integers, Sequences, FiniteSets, TLC

(***************************************************************************)
(* Bounds of the model.                                                    *)
(***************************************************************************)
MaxRuns == 3
MaxQueue == 2
MaxEvents == 2
MaxLen == 4
MaxLines == 5

(***************************************************************************)
(* Python string helpers on token sequences.                               *)
(***************************************************************************)
Whitespace == {" ", "\n"}

RECURSIVE LStrip(_, _)
LStrip(s, chars) ==
    IF s # <<>> /\ Head(s) \in chars THEN LStrip(Tail(s), chars) ELSE s

RECURSIVE RStrip(_, _)
RStrip(s, chars) ==
    IF s # <<>> /\ s[Len(s)] \in chars
    THEN RStrip(SubSeq(s, 1, Len(s) - 1), chars)
    ELSE s

\* str.strip(chars): drop leading and trailing characters that are in chars
Strip(s, chars) == RStrip(LStrip(s, chars), chars)

\* str.split(sep): always at least one piece
RECURSIVE Split(_, _)
Split(s, sep) ==
    IF \E i \in 1..Len(s) : s[i] = sep
    THEN LET i == CHOOSE k \in 1..Len(s) :
                     s[k] = sep /\ \A j \in 1..(k - 1) : s[j] # sep
         IN  <<SubSeq(s, 1, i - 1)>> \o Split(SubSeq(s, i + 1, Len(s)), sep)
    ELSE <<s>>

\* sep.join(pieces)
RECURSIVE Join(_, _)
Join(pieces, sep) ==
    IF pieces = <<>> THEN <<>>
    ELSE IF Len(pieces) = 1 THEN pieces[1]
    ELSE pieces[1] \o <<sep>> \o Join(Tail(pieces), sep)

\* first index >= from whose token is in toks, 0 when there is none
FirstIn(s, toks, from) ==
    IF \E i \in from..Len(s) : s[i] \in toks
    THEN CHOOSE i \in from..Len(s) :
             s[i] \in toks /\ \A j \in from..(i - 1) : s[j] \notin toks
    ELSE 0

\* s has the token sequence p at index i
MatchesAt(s, p, i) ==
    /\ i + Len(p) - 1 <= Len(s)
    /\ \A k \in 1..Len(p) : s[i + k - 1] = p[k]

(***************************************************************************)
(* post_process_llm_output (main.py 91-107).                               *)
(***************************************************************************)
\* the three alternatives of the first pattern; "i'm here to help" is cut
\* inside a word so that neither piece starts or ends with a blank
PhraseSignOff == <<"please let me know if you need any further assistance">>
PhraseHelp == <<"i'm here to h", "elp">>
PhraseRegards == <<"best regards, [your name] it support assistant">>
Phrases1 == {PhraseSignOff, PhraseHelp, PhraseRegards}
PhraseQuestions == "if you have any further questions or need any additional assistance"
PhraseHowever == "however, it is assumed that a ticket id exists in the actual glpi ticket"
PhraseIDontKnow == "i don't know"
PhraseNoTicketId == "no ticket id is provided in the given content"
PhraseUnknownId == "ticket id:  (unknown)"
PhraseNote == "note: the provided content does not include a ticket id"

\* re.sub of (p1|p2|p3)[\.,]? by "": one left-to-right pass, the scan goes on
\* after the removed text and never looks at the text it has produced
RECURSIVE SubPhrases(_)
SubPhrases(s) ==
    IF s = <<>> THEN <<>>
    ELSE IF \E p \in Phrases1 : MatchesAt(s, p, 1)
    THEN LET p == CHOOSE q \in Phrases1 : MatchesAt(s, q, 1)
             rest == SubSeq(s, Len(p) + 1, Len(s))
         IN  IF rest # <<>> /\ Head(rest) \in {".", ","}
             THEN SubPhrases(Tail(rest))
             ELSE SubPhrases(rest)
    ELSE <<Head(s)>> \o SubPhrases(Tail(s))

\* re.sub of "phrase.*" by "": "." does not match a newline, so the rest of the
\* line goes and the newline stays
RECURSIVE SubToEndOfLine(_, _)
SubToEndOfLine(s, phrase) ==
    IF s = <<>> THEN <<>>
    ELSE IF Head(s) = phrase
    THEN LET nl == FirstIn(s, {"\n"}, 1)
         IN  IF nl = 0 THEN <<>>
             ELSE SubToEndOfLine(SubSeq(s, nl, Len(s)), phrase)
    ELSE <<Head(s)>> \o SubToEndOfLine(Tail(s), phrase)

\* re.sub of "start\.?.*end\.?" by "": greedy, so up to the last end phrase of
\* the same line; optDot is whether the pattern ends with \.?
RECURSIVE SubSpan(_, _, _, _)
SubSpan(s, start, end, optDot) ==
    IF s = <<>> THEN <<>>
    ELSE LET nl == FirstIn(s, {"\n"}, 1)
             eol == IF nl = 0 THEN Len(s) ELSE nl - 1
             ends == {i \in 2..eol : s[i] = end}
         IN  IF Head(s) = start /\ ends # {}
             THEN LET last == CHOOSE i \in ends : \A j \in ends : j <= i
                      after == SubSeq(s, last + 1, Len(s))
                  IN  IF optDot /\ after # <<>> /\ Head(after) = "."
                      THEN SubSpan(Tail(after), start, end, optDot)
                      ELSE SubSpan(after, start, end, optDot)
             ELSE <<Head(s)>> \o SubSpan(Tail(s), start, end, optDot)

\* the line filter of lines 99-107
KeepLine(line) ==
    \/ line # <<>> /\ Head(line) = "*" /\ Len(line) > 1
    \/ line # <<>> /\ Head(line) # "*"

StripLine(line) == Strip(line, Whitespace)

RECURSIVE CleanLines(_)
CleanLines(lines) ==
    IF lines = <<>> THEN <<>>
    ELSE LET line == StripLine(Head(lines))
         IN  (IF KeepLine(line) THEN <<line>> ELSE <<>>)
             \o CleanLines(Tail(lines))

post_process_llm_output(text) ==
    LET t1 == SubPhrases(text)
        t2 == SubToEndOfLine(t1, PhraseQuestions)
        t3 == SubSpan(t2, PhraseHowever, PhraseIDontKnow, TRUE)
        t4 == SubSpan(t3, PhraseNoTicketId, PhraseUnknownId, FALSE)
        t5 == SubSpan(t4, PhraseNote, PhraseIDontKnow, FALSE)
    IN  Join(CleanLines(Split(t5, "\n")), "\n")

(***************************************************************************)
(* Rule-based extractors (main.py 112-165).  A str content is a token       *)
(* sequence; the functions raise TypeError on a content that is not a str,  *)
(* which the callers below test with isStr before applying them.            *)
(***************************************************************************)
HdrCause == "Suspected Cause:"
HdrSolution == "Solution:"
HdrKeyInfo == "Key Information:"
HdrUsers == "Affected Users:"
NotFound == <<"Not Found">>
None == <<"None">>

\* [line.strip("* ").strip() for line in section.split("\n") if line.strip("* ").strip()]
BulletItem(line) == Strip(Strip(line, {"*", " "}), Whitespace)

RECURSIVE BulletItems(_)
BulletItems(lines) ==
    IF lines = <<>> THEN <<>>
    ELSE (IF BulletItem(Head(lines)) # <<>>
          THEN <<BulletItem(Head(lines))>> ELSE <<>>)
         \o BulletItems(Tail(lines))

\* re.search(r"header(.*?)(?:t1|t2)", content, re.DOTALL | re.IGNORECASE):
\* the leftmost header that has a terminator after it is the first header,
\* and the lazy group ends at the first terminator after it.  The result is
\* <<matched, group(1)>>.
SearchSection(content, header, terminators) ==
    LET h == FirstIn(content, {header}, 1)
        t == IF h = 0 THEN 0 ELSE FirstIn(content, terminators, h + 1)
    IN  IF h = 0 \/ t = 0 THEN <<FALSE, <<>>>>
        ELSE <<TRUE, SubSeq(content, h + 1, t - 1)>>

SectionItems(group) ==
    LET section == Strip(group, Whitespace)
        items == BulletItems(Split(section, "\n"))
    IN  IF items # <<>> THEN Join(items, "\n") ELSE None

extract_suspected_causes(content) ==
    LET m == SearchSection(content, HdrCause, {HdrSolution, HdrUsers})
    IN  IF m[1] THEN SectionItems(m[2]) ELSE None

extract_resolution_steps(content) ==
    LET m == SearchSection(content, HdrSolution, {HdrKeyInfo, HdrUsers})
    IN  IF m[1] THEN SectionItems(m[2]) ELSE None

\* The four remaining matchers look for one sentence each; the sentence is one
\* token and the captured groups are what the token stands for.
SentFinanceCrash == "The finance system (FinSys) is crashing"
SentCheckedServer == "Checked the FinSys server (srv01)"
SentCodeBlock == "[fence]ERR-500 disk full[fence]"
SentUserLine == "* Jane Doe (jane@x.com)"
SentStartTime == "around 9:30 AM on March 3, 2025"

Has(content, tok) == \E i \in 1..Len(content) : content[i] = tok

extract_affected_systems(content) ==
    IF Has(content, SentFinanceCrash)
    THEN IF Has(content, SentCheckedServer)
         THEN <<"FinSys, srv01">> ELSE <<"FinSys">>
    ELSE NotFound

extract_error_messages(content) ==
    IF Has(content, SentCodeBlock) THEN <<"ERR-500 disk full">> ELSE None

extract_affected_users(content) ==
    IF Has(content, SentUserLine) THEN <<"Jane Doe">> ELSE None

extract_start_time(content) ==
    IF Has(content, SentStartTime) THEN <<"9:30 AM, March 3, 2025">> ELSE NotFound

(***************************************************************************)
(* glpi_webhook (main.py 169-187) as a function of the request body.       *)
(* A body is [valid, data]: valid is whether request.json() parses it and  *)
(* data is the list of event objects.  A key an event does not have reads  *)
(* as Missing (dict.get returns None).                                     *)
(***************************************************************************)
Missing == "<missing>"
EventNames == {"add", "update", Missing}
ItemTypes == {"Ticket", "Computer", Missing}
ItemIds == {"int:1", "int:2", "str:2", "str:abc", Missing}
Events == [event : EventNames, itemtype : ItemTypes, items_id : ItemIds]
TicketIds == {1, 2}

\* int(event.get("items_id")): a number or a numeric string converts, any
\* other string raises ValueError and None raises TypeError
PyInt(v) ==
    CASE v = "int:1" -> [ok |-> TRUE, value |-> 1]
      [] v = "int:2" -> [ok |-> TRUE, value |-> 2]
      [] v = "str:2" -> [ok |-> TRUE, value |-> 2]
      [] OTHER -> [ok |-> FALSE, value |-> 0]

\* the itemtype test left out of line 177
IsAddEvent(e) == e.event = "add"

IsRelevant(e) == e.event = "add" /\ e.itemtype = "Ticket"

MsgInitiated == "Ticket processing initiated"
MsgNoEvent == "Webhook received, no relevant event."
MsgInvalidJson == "error: Invalid JSON payload"
MsgError == "error"
ErrorMessages == {MsgInvalidJson, MsgError}

\* the return of line 180 moved after the loop: every add/Ticket event is
\* dispatched
RECURSIVE HandleAllEvents(_)
HandleAllEvents(data) ==
    IF data = <<>>
    THEN [message |-> MsgNoEvent, tasks |-> <<>>]
    ELSE IF IsRelevant(Head(data))
    THEN LET id == PyInt(Head(data).items_id)
             rest == HandleAllEvents(Tail(data))
         IN  IF id.ok
             THEN [message |-> MsgInitiated, tasks |-> <<id.value>> \o rest.tasks]
             ELSE [message |-> MsgError, tasks |-> <<>>]
    ELSE HandleAllEvents(Tail(data))

\* the for loop of lines 176-182; tasks is what add_task was called with
RECURSIVE HandleEvents(_)
HandleEvents(data) ==
    IF data = <<>>
    THEN [message |-> MsgNoEvent, tasks |-> <<>>]
    ELSE IF IsRelevant(Head(data))
    THEN LET id == PyInt(Head(data).items_id)
         IN  IF id.ok
             THEN [message |-> MsgInitiated, tasks |-> <<id.value>>]
             ELSE [message |-> MsgError, tasks |-> <<>>]
    ELSE HandleEvents(Tail(data))

glpi_webhook(body) ==
    IF ~body.valid
    THEN [message |-> MsgInvalidJson, tasks |-> <<>>]
    ELSE HandleEvents(body.data)

RECURSIVE SeqsUpTo(_, _)
SeqsUpTo(S, n) ==
    IF n = 0 THEN {<<>>}
    ELSE LET shorter == SeqsUpTo(S, n - 1)
         IN  shorter \cup {<<x>> \o t : x \in S, t \in {u \in shorter : Len(u) = n - 1}}

InvalidBody == [valid |-> FALSE, data |-> <<>>]
AllBodies ==
    {InvalidBody} \cup {[valid |-> TRUE, data |-> d] : d \in SeqsUpTo(Events, MaxEvents)}

Ev(e, t, i) == [event |-> e, itemtype |-> t, items_id |-> i]
\* the bodies the pipeline specification receives
PipelineBodies ==
    { InvalidBody,
      [valid |-> TRUE, data |-> <<Ev("update", "Ticket", "int:1"), Ev("add", "Ticket", "int:1")>>],
      [valid |-> TRUE, data |-> <<Ev("add", "Ticket", "str:2"), Ev("add", "Ticket", "int:1")>>],
      [valid |-> TRUE, data |-> <<Ev("add", "Computer", "int:1")>>],
      [valid |-> TRUE, data |-> <<Ev("add", "Ticket", Missing)>>] }

(***************************************************************************)
(* Inputs of the pipeline: what the GLPI server and the LLM return.        *)
(***************************************************************************)
Bullet(item) == <<"*", " ", item>>
ExampleContent ==
    <<HdrCause, "\n">> \o Bullet("Disk full") \o <<"\n">> \o Bullet("Stale lock")
    \o <<"\n", HdrSolution, "\n">> \o Bullet("Cleared cache")

\* ticket.get('content', ""): a str, or a value that is not a str (JSON null)
StrContent(text) == [isStr |-> TRUE, text |-> text]
NonStrContent == [isStr |-> FALSE, text |-> <<>>]
PipelineContents ==
    { StrContent(ExampleContent),
      StrContent(ExampleContent \o <<"\n", HdrKeyInfo>>),
      StrContent(<<>>),
      NonStrContent }

Undefined == <<"<undefined>">>
LLMOutputs ==
    { <<"**", "Problem Description:", "**", " ", "x", "\n", " ", "\n",
        "*", " ", "\n", "i'm here to h", "elp", ".">>,
      <<"x">> }

FieldNames ==
    {"affected_systems", "error_messages", "affected_users",
     "start_time", "suspected_causes", "resolution_steps"}

\* the last assignment (line 70) left out
ExtractFive(text) ==
    [f \in FieldNames \ {"resolution_steps"} |->
        CASE f = "affected_systems" -> extract_affected_systems(text)
          [] f = "error_messages"   -> extract_error_messages(text)
          [] f = "affected_users"   -> extract_affected_users(text)
          [] f = "start_time"       -> extract_start_time(text)
          [] f = "suspected_causes" -> extract_suspected_causes(text)]

\* lines 52-70 on a str content
ExtractAll(text) ==
    [f \in FieldNames |->
        CASE f = "affected_systems" -> extract_affected_systems(text)
          [] f = "error_messages"   -> extract_error_messages(text)
          [] f = "affected_users"   -> extract_affected_users(text)
          [] f = "start_time"       -> extract_start_time(text)
          [] f = "suspected_causes" -> extract_suspected_causes(text)
          [] f = "resolution_steps" -> extract_resolution_steps(text)]

(***************************************************************************)
(* State.                                                                  *)
(***************************************************************************)
VARIABLES
    request,          \* <<>> or <<body>>: a webhook request not yet handled
    response,         \* <<>> or <<[body, message, tasks]>>: the last request handled
    background_tasks, \* ticket ids handed to add_task and not yet started
    stage,            \* position of the running process_ticket
    ended,            \* process_ticket has left its finally block
    run,              \* number of the current run, 0 before the first
    ticket_id,
    fetched,          \* "unset", "empty" (falsy ticket) or "ok"
    ticket_content,
    initial_result,
    key_info,
    reason,           \* why the run failed: "none", "TicketNotFound" or the stage that raised
    propagated,       \* an exception left process_ticket
    kills,            \* kill_session invocations of the current run
    calls,            \* per-run calls of the collaborators
    session_token,    \* GLPIConnector.session_token, 0 is None; a token is
                      \* named by the run whose init_session obtained it
    initSent,         \* the current run sent an initSession request
    fetchToken,       \* Session-Token of the current run's ticket request, 0 if none was sent
    liveSessions,     \* tokens the GLPI server accepts
    releasedSessions, \* tokens kill_session has sent a killSession request for
    files,            \* ticket ids whose local PDF file exists
    stored,           \* ticket ids whose PDF is in the bucket
    built,            \* "none", "ok", "fail": doc.build of the current run
    uploaded,         \* "none", "ok", "fail": upload_to_s3 of the current run
    cleanIn, cleanOut, cleanTwice, cleanPc,
    extContent, extCauses, extSteps, extPc

webVars == <<request, response, background_tasks>>
runVars == <<stage, ended, run, ticket_id, fetched, ticket_content,
             initial_result, key_info, reason, propagated, kills, calls,
             initSent, fetchToken, built, uploaded>>
connVars == <<session_token, liveSessions, releasedSessions>>
pdfVars == <<files, stored>>
cleanVars == <<cleanIn, cleanOut, cleanTwice, cleanPc>>
extVars == <<extContent, extCauses, extSteps, extPc>>
vars == <<webVars, runVars, connVars, pdfVars, cleanVars, extVars>>

NoCalls == [summarize |-> 0, extract |-> 0, assemble |-> 0, render |-> 0, upload |-> 0]
NoKeyInfo == <<>>
Running == stage # "Idle" /\ ~ended

InitWeb ==
    /\ request = <<>>
    /\ response = <<>>
    /\ background_tasks = <<>>

InitRun ==
    /\ stage = "Idle"
    /\ ended = FALSE
    /\ run = 0
    /\ ticket_id = 0
    /\ fetched = "unset"
    /\ ticket_content = StrContent(<<>>)
    /\ initial_result = Undefined
    /\ key_info = NoKeyInfo
    /\ reason = "none"
    /\ propagated = FALSE
    /\ kills = 0
    /\ calls = NoCalls
    /\ initSent = FALSE
    /\ fetchToken = 0
    /\ built = "none"
    /\ uploaded = "none"

\* GLPIConnector.__init__ (glpi_connector.py 6-14)
InitConn ==
    /\ session_token = 0
    /\ liveSessions = {}
    /\ releasedSessions = {}

InitPdf ==
    /\ files = {}
    /\ stored = {}

InitCleanIdle ==
    /\ cleanIn = <<>>
    /\ cleanOut = Undefined
    /\ cleanTwice = Undefined
    /\ cleanPc = "off"

InitExtIdle ==
    /\ extContent = <<>>
    /\ extCauses = Undefined
    /\ extSteps = Undefined
    /\ extPc = "off"

Init == InitWeb /\ InitRun /\ InitConn /\ InitPdf /\ InitCleanIdle /\ InitExtIdle

(***************************************************************************)
(* Webhook.                                                                *)
(***************************************************************************)
\* a POST /webhook arrives
Receive ==
    /\ request = <<>>
    /\ Len(background_tasks) < MaxQueue
    /\ \E body \in PipelineBodies : request' = <<body>>
    /\ UNCHANGED <<response, background_tasks, runVars, connVars, pdfVars,
                   cleanVars, extVars>>

\* glpi_webhook handles the request; process_ticket never awaits, so the
\* handler runs only while no run is executing
Webhook ==
    /\ request # <<>>
    /\ ~Running
    /\ LET r == glpi_webhook(request[1])
       IN  /\ response' = <<[body |-> request[1], message |-> r.message,
                             tasks |-> r.tasks]>>
           /\ background_tasks' = background_tasks \o r.tasks
    /\ request' = <<>>
    /\ UNCHANGED <<runVars, connVars, pdfVars, cleanVars, extVars>>

(***************************************************************************)
(* process_ticket (main.py 22-87).                                         *)
(***************************************************************************)
\* the background task starts
StartRun ==
    /\ ~Running
    /\ background_tasks # <<>>
    /\ run < MaxRuns
    /\ run' = run + 1
    /\ ticket_id' = Head(background_tasks)
    /\ background_tasks' = Tail(background_tasks)
    /\ stage' = "Fetching"
    /\ ended' = FALSE
    /\ fetched' = "unset"
    /\ ticket_content' = StrContent(<<>>)
    /\ initial_result' = Undefined
    /\ key_info' = NoKeyInfo
    /\ reason' = "none"
    /\ propagated' = FALSE
    /\ kills' = 0
    /\ calls' = NoCalls
    /\ initSent' = FALSE
    /\ fetchToken' = 0
    /\ built' = "none"
    /\ uploaded' = "none"
    /\ UNCHANGED <<request, response, connVars, pdfVars, cleanVars, extVars>>

\* "except requests.exceptions.RequestException"
CatchesRequestErrors(exc) == exc = "BackendError"

\* except Exception (line 84)
Catches(exc) == TRUE

\* an exception raised in the try block of process_ticket
Raise(at, exc) ==
    /\ stage' = IF Catches(exc) THEN "Failed" ELSE "Crashed"
    /\ reason' = at
    /\ propagated' = ~Catches(exc)

\* "if ticket is None": get_ticket answers [] and never None
IsNone(result) == FALSE

\* if not ticket (line 26)
IsFalsy(result) == result # "ticket"

Replies ==
    {[kind |-> "error", content |-> StrContent(<<>>)],
     [kind |-> "empty", content |-> StrContent(<<>>)]}
    \cup {[kind |-> "ticket", content |-> c] : c \in PipelineContents}

\* glpi.get_ticket(ticket_id) with _ensure_session and init_session
\* (glpi_connector.py 16-36, 54-59, 91-110) and the test of line 26
Fetching ==
    /\ stage = "Fetching"
    /\ \E initOk \in BOOLEAN, reply \in Replies :
         LET needInit == session_token = 0
             tok == IF needInit THEN (IF initOk THEN run ELSE 0) ELSE session_token
             live == IF needInit /\ initOk THEN liveSessions \cup {run} ELSE liveSessions
             sent == tok # 0
             \* [] on a failed session, [] on a request error (a token the
             \* server does not accept is answered 401), else response.json()
             result == IF ~sent \/ tok \notin live \/ reply.kind = "error"
                       THEN "empty" ELSE reply.kind
         IN  /\ session_token' = tok
             /\ liveSessions' = live
             /\ initSent' = needInit
             /\ fetchToken' = tok
             /\ fetched' = IF result = "ticket" THEN "ok" ELSE "empty"
             /\ IF IsFalsy(result)
                THEN /\ stage' = "Failed"
                     /\ reason' = "TicketNotFound"
                     /\ UNCHANGED ticket_content
                ELSE /\ stage' = "Summarizing"
                     /\ ticket_content' = reply.content
                     /\ UNCHANGED reason
    /\ UNCHANGED <<webVars, ended, run, ticket_id, initial_result, key_info,
                   propagated, kills, calls, built, uploaded,
                   releasedSessions, pdfVars, cleanVars, extVars>>

\* Step 1 (lines 33-48): llm_service.rag_completion, then post_process_llm_output
Summarizing ==
    /\ stage = "Summarizing"
    /\ calls' = [calls EXCEPT !.summarize = @ + 1]
    /\ \/ \E out \in LLMOutputs :
            /\ initial_result' = post_process_llm_output(out)
            /\ stage' = "Extracting"
            /\ UNCHANGED <<reason, propagated>>
       \/ /\ Raise("Summarizing", "BackendError")
          /\ UNCHANGED initial_result
    /\ UNCHANGED <<webVars, ended, run, ticket_id, fetched, ticket_content,
                   key_info, kills, initSent, fetchToken, built, uploaded,
                   connVars, pdfVars, cleanVars, extVars>>

\* Step 2 (lines 52-70): key_info = {} and the six extractors in turn; the
\* first one raises TypeError when the content is not a str
Extracting ==
    /\ stage = "Extracting"
    /\ calls' = [calls EXCEPT !.extract = @ + 1]
    /\ IF ticket_content.isStr
       THEN /\ key_info' = ExtractAll(ticket_content.text)
            /\ stage' = "Assembling"
            /\ UNCHANGED <<reason, propagated>>
       ELSE /\ key_info' = NoKeyInfo
            /\ Raise("Extracting", "TypeError")
    /\ UNCHANGED <<webVars, ended, run, ticket_id, fetched, ticket_content,
                   initial_result, kills, initSent, fetchToken, built, uploaded,
                   connVars, pdfVars, cleanVars, extVars>>

\* Step 3 up to the try block of generate_report (main.py 74-81,
\* pdf_generator.py 50-65 and 69-100): PDFGenerator() raises ValueError when the
\* bucket is not configured, a Paragraph raises on markup it cannot parse
Assembling ==
    /\ stage = "Assembling"
    /\ calls' = [calls EXCEPT !.assemble = @ + 1]
    /\ \/ /\ stage' = "Publishing"
          /\ UNCHANGED <<reason, propagated>>
       \/ \E exc \in {"ValueError", "LayoutError"} : Raise("Assembling", exc)
    /\ UNCHANGED <<webVars, ended, run, ticket_id, fetched, ticket_content,
                   initial_result, key_info, kills, initSent, fetchToken,
                   built, uploaded, connVars, pdfVars, cleanVars, extVars>>

\* self.doc.build(elements) (pdf_generator.py 105); a failed build may or may
\* not leave a file behind
Publishing ==
    /\ stage = "Publishing"
    /\ calls' = [calls EXCEPT !.render = @ + 1]
    /\ \/ /\ built' = "ok"
          /\ files' = files \cup {ticket_id}
          /\ stage' = "Uploading"
       \/ /\ built' = "fail"
          /\ \E partial \in BOOLEAN :
                files' = IF partial THEN files \cup {ticket_id} ELSE files
          /\ stage' = "Cleanup"
    /\ UNCHANGED <<webVars, ended, run, ticket_id, fetched, ticket_content,
                   initial_result, key_info, reason, propagated, kills,
                   initSent, fetchToken, uploaded, connVars, stored,
                   cleanVars, extVars>>

\* self.upload_to_s3(self.filename) (pdf_generator.py 107, 119-126); both
\* except clauses of generate_report only print
Uploading ==
    /\ stage = "Uploading"
    /\ calls' = [calls EXCEPT !.upload = @ + 1]
    /\ \/ /\ uploaded' = "ok"
          /\ stored' = stored \cup {ticket_id}
       \/ /\ uploaded' = "fail"
          /\ UNCHANGED stored
    /\ stage' = "Cleanup"
    /\ UNCHANGED <<webVars, ended, run, ticket_id, fetched, ticket_content,
                   initial_result, key_info, reason, propagated, kills,
                   initSent, fetchToken, built, connVars, files,
                   cleanVars, extVars>>

\* os.remove at the end of the try block instead of in finally
CleanupOnSuccess ==
    /\ stage = "Cleanup"
    /\ files' = IF uploaded = "ok" THEN files \ {ticket_id} ELSE files
    /\ stage' = "Done"
    /\ UNCHANGED <<webVars, ended, run, ticket_id, fetched, ticket_content,
                   initial_result, key_info, reason, propagated, kills, calls,
                   initSent, fetchToken, built, uploaded, connVars, stored,
                   cleanVars, extVars>>

\* the finally block of generate_report (pdf_generator.py 115-117); the
\* method returns and line 82 prints "Report generated"
Cleanup ==
    /\ stage = "Cleanup"
    /\ files' = files \ {ticket_id}
    /\ stage' = "Done"
    /\ UNCHANGED <<webVars, ended, run, ticket_id, fetched, ticket_content,
                   initial_result, key_info, reason, propagated, kills, calls,
                   initSent, fetchToken, built, uploaded, connVars, stored,
                   cleanVars, extVars>>

Terminal == {"Done", "Failed", "Crashed"}

\* kill_session at the end of the try block instead of in finally
FinallyOnSuccess ==
    /\ stage \in Terminal
    /\ ~ended
    /\ kills' = IF stage = "Done" THEN kills + 1 ELSE kills
    /\ IF session_token = 0 \/ stage # "Done"
       THEN UNCHANGED <<liveSessions, releasedSessions>>
       ELSE /\ releasedSessions' = releasedSessions \cup {session_token}
            /\ \E ok \in BOOLEAN :
                  liveSessions' = IF ok THEN liveSessions \ {session_token}
                                  ELSE liveSessions
    /\ ended' = TRUE
    /\ UNCHANGED <<webVars, stage, run, ticket_id, fetched, ticket_content,
                   initial_result, key_info, reason, propagated, calls,
                   initSent, fetchToken, built, uploaded, session_token,
                   pdfVars, cleanVars, extVars>>

\* finally: glpi.kill_session() (main.py 86-87, glpi_connector.py 38-52).
\* Without a token the method returns at once; with one it sends killSession,
\* which the server may or may not receive.  session_token is left as it is.
Finally ==
    /\ stage \in Terminal
    /\ ~ended
    /\ kills' = kills + 1
    /\ IF session_token = 0
       THEN UNCHANGED <<liveSessions, releasedSessions>>
       ELSE /\ releasedSessions' = releasedSessions \cup {session_token}
            /\ \E ok \in BOOLEAN :
                  liveSessions' = IF ok THEN liveSessions \ {session_token}
                                  ELSE liveSessions
    /\ ended' = TRUE
    /\ UNCHANGED <<webVars, stage, run, ticket_id, fetched, ticket_content,
                   initial_result, key_info, reason, propagated, calls,
                   initSent, fetchToken, built, uploaded, session_token,
                   pdfVars, cleanVars, extVars>>

Next ==
    \/ Receive
    \/ Webhook
    \/ StartRun
    \/ Fetching
    \/ Summarizing
    \/ Extracting
    \/ Assembling
    \/ Publishing
    \/ Uploading
    \/ Cleanup
    \/ Finally

Spec == Init /\ [][Next]_vars

(***************************************************************************)
(* The webhook handler on every body of up to MaxEvents events.            *)
(***************************************************************************)
InitWebhook ==
    /\ request \in {<<body>> : body \in AllBodies}
    /\ response = <<>>
    /\ background_tasks = <<>>
    /\ InitRun /\ InitConn /\ InitPdf /\ InitCleanIdle /\ InitExtIdle

NextWebhook == Webhook

SpecWebhook == InitWebhook /\ [][NextWebhook]_vars

(***************************************************************************)
(* post_process_llm_output applied once and twice to every text of up to   *)
(* MaxLen tokens.                                                          *)
(***************************************************************************)
CleanAlphabet ==
    {"i'm here to h", "elp", ".", "\n", "*", " ", "x", PhraseQuestions}

ExtraCleanInputs ==
    { <<PhraseHowever, ".", "x", PhraseIDontKnow, "x", PhraseIDontKnow, ".", "\n", "x">>,
      <<"x", PhraseNoTicketId, "x", PhraseUnknownId, "x">>,
      <<PhraseNote, "x", "\n", PhraseIDontKnow>>,
      <<PhraseNote, PhraseIDontKnow, ".">>,
      PhraseSignOff \o <<",", " ">> \o PhraseRegards }

CleanInputs == SeqsUpTo(CleanAlphabet, MaxLen) \cup ExtraCleanInputs

InitClean ==
    /\ cleanIn \in CleanInputs
    /\ cleanOut = Undefined
    /\ cleanTwice = Undefined
    /\ cleanPc = "in"
    /\ InitWeb /\ InitRun /\ InitConn /\ InitPdf /\ InitExtIdle

CleanOnce ==
    /\ cleanPc = "in"
    /\ cleanOut' = post_process_llm_output(cleanIn)
    /\ cleanPc' = "once"
    /\ UNCHANGED <<cleanIn, cleanTwice, webVars, runVars, connVars, pdfVars, extVars>>

CleanAgain ==
    /\ cleanPc = "once"
    /\ cleanTwice' = post_process_llm_output(cleanOut)
    /\ cleanPc' = "twice"
    /\ UNCHANGED <<cleanIn, cleanOut, webVars, runVars, connVars, pdfVars, extVars>>

NextClean == CleanOnce \/ CleanAgain

SpecClean == InitClean /\ [][NextClean]_vars

(***************************************************************************)
(* The two section extractors on every text of up to MaxLines lines, each  *)
(* line a section header or a bullet.                                      *)
(***************************************************************************)
Headers == {HdrCause, HdrSolution, HdrKeyInfo, HdrUsers}
BulletTexts == {"Disk full", "Stale lock", "Cleared cache"}
ExtLines == {<<h>> : h \in Headers} \cup {Bullet(b) : b \in BulletTexts}
ExtContents == SeqsUpTo(ExtLines, MaxLines)

InitExtract ==
    /\ extContent \in ExtContents
    /\ extCauses = Undefined
    /\ extSteps = Undefined
    /\ extPc = "in"
    /\ InitWeb /\ InitRun /\ InitConn /\ InitPdf /\ InitCleanIdle

\* extContent holds the lines; the content string is their join
ExtText == Join(extContent, "\n")

ExtractCauses ==
    /\ extPc = "in"
    /\ extCauses' = extract_suspected_causes(ExtText)
    /\ extPc' = "causes"
    /\ UNCHANGED <<extContent, extSteps, webVars, runVars, connVars, pdfVars, cleanVars>>

ExtractSteps ==
    /\ extPc = "causes"
    /\ extSteps' = extract_resolution_steps(ExtText)
    /\ extPc' = "done"
    /\ UNCHANGED <<extContent, extCauses, webVars, runVars, connVars, pdfVars, cleanVars>>

NextExtract == ExtractCauses \/ ExtractSteps

SpecExtract == InitExtract /\ [][NextExtract]_vars

(***************************************************************************)
(* Properties.                                                             *)
(***************************************************************************)

\* C1: in every run of process_ticket (success, TicketNotFound or an
\* exception mid-run) kill_session is invoked exactly once by the end of the
\* run, and not before the run has reached its terminal state.
SessionReleasedOnce ==
    /\ kills <= 1
    /\ stage \notin Terminal => kills = 0
    /\ ended => kills = 1

\* a run that failed on an exception in the middle has ended
WitnessSessionReleasedOnce ==
    ended /\ stage = "Failed" /\ reason = "Extracting" /\ kills = 1

\* C2: every run acquires its own session before it fetches its ticket: a
\* ticket request never carries a session token that another run acquired or
\* that kill_session has already released.
OwnSessionPerRun ==
    (fetchToken # 0 /\ ~ended) =>
        /\ initSent
        /\ fetchToken = run
        /\ fetchToken \notin releasedSessions

\* C3: an empty or absent ticket (a failed session initialisation included)
\* takes the run directly to Failed with reason TicketNotFound; nothing is
\* summarized, extracted, rendered or uploaded in that run.
TicketNotFoundAborts ==
    fetched = "empty" =>
        /\ stage = "Failed"
        /\ reason = "TicketNotFound"
        /\ calls = NoCalls
        /\ initial_result = Undefined
        /\ DOMAIN key_info = {}
        /\ built = "none"
        /\ uploaded = "none"

\* the session could not be initialised and the run has ended
WitnessTicketNotFoundAborts ==
    ended /\ fetched = "empty" /\ initSent /\ session_token = 0

\* C4: an error raised in Summarizing, Extracting or Assembling is caught in
\* process_ticket: the run is Failed, nothing propagates to the caller and
\* no report is rendered or uploaded.
StageErrorsContained ==
    /\ ~propagated
    /\ reason \in {"Summarizing", "Extracting", "Assembling"} =>
          /\ stage = "Failed"
          /\ calls.render = 0
          /\ calls.upload = 0
          /\ built = "none"
          /\ uploaded = "none"

\* PDFGenerator or the report layout raised and the run has ended
WitnessStageErrorsContained ==
    ended /\ reason = "Assembling" /\ calls.assemble = 1

\* C5: Fetching completes before Summarizing or Extracting, Assembling starts
\* only after both have completed, Publishing only after Assembling; no report
\* is assembled or published while the summary or the extraction result is
\* undefined.
ReportStages == {"Assembling", "Publishing", "Uploading", "Cleanup", "Done"}
StagesOrdered ==
    /\ (stage \in {"Summarizing", "Extracting"} \cup ReportStages
        \/ calls.summarize > 0 \/ calls.extract > 0) => fetched = "ok"
    /\ (stage \in ReportStages \/ calls.assemble > 0) =>
          /\ calls.summarize = 1 /\ initial_result # Undefined
          /\ calls.extract = 1 /\ DOMAIN key_info = FieldNames
    /\ (stage \in ReportStages \ {"Assembling"} \/ calls.render > 0) =>
          calls.assemble = 1
    /\ calls.upload > 0 => calls.render = 1

\* a report went through every stage and into the bucket
WitnessStagesOrdered ==
    stage = "Done" /\ uploaded = "ok" /\ calls.upload = 1

\* C6: the handler dispatches a run only for an event with event "add" and
\* itemtype "Ticket"; a body without such an event dispatches nothing and gets
\* the no-action response; a request answered with an error has dispatched
\* nothing.
HasAddTicket(data) ==
    \E i \in 1..Len(data) : data[i].event = "add" /\ data[i].itemtype = "Ticket"
DispatchOnlyAddTicket ==
    response # <<>> =>
        LET body == response[1].body
            message == response[1].message
        IN  /\ background_tasks # <<>> =>
                  /\ body.valid
                  /\ \E i \in 1..Len(body.data) :
                        /\ body.data[i].event = "add"
                        /\ body.data[i].itemtype = "Ticket"
                        /\ PyInt(body.data[i].items_id).ok
                        /\ background_tasks = <<PyInt(body.data[i].items_id).value>>
            /\ (body.valid /\ ~HasAddTicket(body.data)) =>
                  /\ background_tasks = <<>>
                  /\ message = MsgNoEvent
            /\ message \in ErrorMessages => background_tasks = <<>>
            /\ ~body.valid => message \in ErrorMessages

\* an add/Ticket event without items_id after an irrelevant event: an error
\* response and no dispatch
WitnessDispatchOnlyAddTicket ==
    /\ response # <<>>
    /\ response[1].message = MsgError
    /\ Len(response[1].body.data) = 2
    /\ response[1].body.data[1].event = "add"
    /\ response[1].body.data[1].itemtype = "Computer"
    /\ response[1].body.data[2] = Ev("add", "Ticket", Missing)

\* C7: after generate_report returns the local PDF file does not exist,
\* whether the build or the upload succeeded or failed.
LocalFileRemoved ==
    stage = "Done" => ticket_id \notin files

\* the file was built, the upload failed and generate_report has returned
WitnessLocalFileRemoved ==
    stage = "Done" /\ built = "ok" /\ uploaded = "fail"

\* C8: a failure while extracting one field is contained to that field: the
\* run goes on to Assembling with an extraction result that has all six keys.
FieldFailureContained ==
    (calls.extract > 0 /\ ~ticket_content.isStr) =>
        /\ stage # "Failed"
        /\ DOMAIN key_info = FieldNames

\* C9: for a text of section headers and bullet lines in which a "Suspected
\* Cause:" section is followed by a "Solution:" section, the two extractors
\* return the bullet items of their section joined by newlines, also when the
\* Solution section is the last section of the text.
IsHeaderLine(line) == Len(line) = 1
HeaderIdx(lines) == {i \in 1..Len(lines) : IsHeaderLine(lines[i])}
NextHeader(lines, j) ==
    IF \E k \in HeaderIdx(lines) : k > j
    THEN CHOOSE k \in HeaderIdx(lines) :
             k > j /\ \A m \in HeaderIdx(lines) : m > j => k <= m
    ELSE Len(lines) + 1
SolutionIdx(lines) == NextHeader(lines, 1)
CauseThenSolution(lines) ==
    /\ Len(lines) >= 4
    /\ lines[1] = <<HdrCause>>
    /\ SolutionIdx(lines) \in 3..(Len(lines) - 1)
    /\ lines[SolutionIdx(lines)] = <<HdrSolution>>
    /\ SolutionIdx(lines) + 1 < NextHeader(lines, SolutionIdx(lines))
ItemsOf(lines, from, to) ==
    Join([k \in 1..(to - from + 1) |-> <<lines[from + k - 1][3]>>], "\n")
ExpectedCauses(lines) == ItemsOf(lines, 2, SolutionIdx(lines) - 1)
ExpectedSteps(lines) ==
    ItemsOf(lines, SolutionIdx(lines) + 1,
            NextHeader(lines, SolutionIdx(lines)) - 1)
SectionsExtracted ==
    (extPc = "done" /\ CauseThenSolution(extContent)) =>
        /\ extCauses = ExpectedCauses(extContent)
        /\ extSteps = ExpectedSteps(extContent)

\* C10: post_process_llm_output is idempotent: a second pass over its own
\* output changes nothing.
CleanIdempotent ==
    cleanPc = "twice" => cleanTwice = cleanOut

\* C11: a run whose report could not be rendered or stored ends in Failed: a
\* run is Done (and announces "Report generated") only when the report was
\* both rendered and stored.
DoneOnlyWhenPublished ==
    /\ stage = "Done" => (built = "ok" /\ uploaded = "ok" /\ ticket_id \in stored)
    /\ (stage \in Terminal /\ (built = "fail" \/ uploaded = "fail")) =>
          stage = "Failed"

\* C12: one request dispatches at most one run: the handler acts on the first
\* event with event "add" and itemtype "Ticket" and returns, so whatever
\* follows it in the body, further add/Ticket events included, changes neither
\* the dispatch nor the response.
FirstAddTicket(data) ==
    CHOOSE i \in 1..Len(data) :
        /\ data[i].event = "add" /\ data[i].itemtype = "Ticket"
        /\ \A j \in 1..(i - 1) :
              ~(data[j].event = "add" /\ data[j].itemtype = "Ticket")
AtMostOneDispatch ==
    response # <<>> =>
        LET body == response[1].body
            message == response[1].message
        IN  /\ Len(background_tasks) <= 1
            /\ (body.valid /\ HasAddTicket(body.data)) =>
                  LET id == PyInt(body.data[FirstAddTicket(body.data)].items_id)
                  IN  IF id.ok
                      THEN /\ background_tasks = <<id.value>>
                           /\ message = MsgInitiated
                      ELSE /\ background_tasks = <<>>
                           /\ message = MsgError

\* two add/Ticket events for different tickets in one body: only the first
\* was dispatched
WitnessAtMostOneDispatch ==
    /\ response # <<>>
    /\ response[1].body.valid
    /\ response[1].body.data = <<Ev("add", "Ticket", "str:2"), Ev("add", "Ticket", "int:1")>>
    /\ background_tasks = <<2>>

=============================================================================
